---- MODULE Spec2Model ----
(***************************************************************************)
(* A model of Rustext (src/rustext/src/main.rs): the line store with its   *)
(* tab-expanded render forms, the cursor/viewport controller, the key      *)
(* dispatch of Editor::button_handler, the prompt! sub-loop, save and load.*)
(*                                                                         *)
(* Text is a sequence of Unicode scalars; every length and every column of *)
(* the program is a BYTE count (String::len, str slicing), so a scalar has *)
(* a UTF-8 width and an operation that cuts a scalar panics as in Rust.    *)
(* Rows are numbered from 0 in the program: row y is row_contents[y + 1].  *)
(***************************************************************************)
EXTENDS Integers, Sequences, FiniteSets, TLC

\* ------------------------------------------------------------------ bounds
MaxRows == 3
MaxBytes == 2

\* ------------------------------------------------------------- characters
Tab == "\t"
Wide == "U2"
Space == " "
Chars == {"a", Tab, Wide}

\* char::len_utf8
CharLen(c) == IF c = Wide THEN 2 ELSE 1

Min(a, b) == IF a < b THEN a ELSE b

\* usize::saturating_sub
SatSub(a, b) == IF a < b THEN 0 ELSE a - b

\* String::len: the length in bytes
RECURSIVE StrLen(_)
StrLen(s) == IF s = <<>> THEN 0 ELSE CharLen(Head(s)) + StrLen(Tail(s))

\* str::is_char_boundary
IsCharBoundary(s, at) == \E k \in 0..Len(s) : StrLen(SubSeq(s, 1, k)) = at

\* the number of scalars in the first `at` bytes (`at` a character boundary)
CharsBefore(s, at) == CHOOSE k \in 0..Len(s) : StrLen(SubSeq(s, 1, k)) = at

\* &s[..at] and &s[at..]
StrPrefix(s, at) == SubSeq(s, 1, CharsBefore(s, at))
StrSuffix(s, at) == SubSeq(s, CharsBefore(s, at) + 1, Len(s))

\* String::insert: asserts that `at` is a character boundary
StrInsertPanics(s, at) == ~IsCharBoundary(s, at)
StrInsert(s, at, ch) == StrPrefix(s, at) \o <<ch>> \o StrSuffix(s, at)

\* String::remove: panics past the end or inside a character
StrRemovePanics(s, at) == at >= StrLen(s) \/ ~IsCharBoundary(s, at)
StrRemove(s, at) == StrPrefix(s, at) \o Tail(StrSuffix(s, at))

Spaces(n) == [i \in 1..n |-> Space]

\* ------------------------------------------------------------- line store
\* EditorRows::render_row: `index` counts display columns, one ahead
RECURSIVE RenderFrom(_, _, _, _)
RenderFrom(content, i, index, acc) ==
    IF i > Len(content) THEN acc
    ELSE IF content[i] = Tab
         THEN LET pad == (8 - ((index + 1) % 8)) % 8
              IN  RenderFrom(content, i + 1, index + 1 + pad, acc \o Spaces(1 + pad))
         ELSE RenderFrom(content, i + 1, index + 1, Append(acc, content[i]))

\* a mutant of render_row: `index` is advanced after the tab is expanded
RECURSIVE RenderFromLate(_, _, _, _)
RenderFromLate(content, i, index, acc) ==
    IF i > Len(content) THEN acc
    ELSE IF content[i] = Tab
         THEN LET pad == (8 - (index % 8)) % 8
              IN  RenderFromLate(content, i + 1, index + 1 + pad, acc \o Spaces(1 + pad))
         ELSE RenderFromLate(content, i + 1, index + 1, Append(acc, content[i]))

render_row_late(content) == RenderFromLate(content, 1, 0, <<>>)

render_row(content) == RenderFrom(content, 1, 0, <<>>)

\* Line::new followed by render_row, as every construction site does
NewLine(content) == [row_content |-> content, render |-> render_row(content)]

number_of_rows(rows) == Len(rows)

get_row(rows, at) == rows[at + 1].row_content

get_render(rows, at) == rows[at + 1].render

\* Vec::insert
VecInsert(rows, at, line) ==
    SubSeq(rows, 1, at) \o <<line>> \o SubSeq(rows, at + 1, Len(rows))

\* Vec::remove
VecRemove(rows, at) == SubSeq(rows, 1, at) \o SubSeq(rows, at + 2, Len(rows))

insert_row(rows, at, contents) == VecInsert(rows, at, NewLine(contents))

join_adjacent_rows(rows, at) ==
    LET current_row == rows[at + 1]
        removed == VecRemove(rows, at)
    IN  [removed EXCEPT ![at] =
            NewLine(removed[at].row_content \o current_row.row_content)]

Line_insert_char(line, at, ch) == NewLine(StrInsert(line.row_content, at, ch))

Line_delete_char(line, at) == NewLine(StrRemove(line.row_content, at))

Contents(rows) == [i \in 1..Len(rows) |-> rows[i].row_content]

RECURSIVE TotalBytes(_)
TotalBytes(rows) ==
    IF rows = <<>> THEN 0 ELSE StrLen(Head(rows).row_content) + TotalBytes(Tail(rows))

\* -------------------------------------------------------------- cursor
\* the fold of Cursor::get_render_x over the scalars before the cursor
RECURSIVE RenderWidth(_, _)
RenderWidth(s, render_x0) ==
    IF s = <<>> THEN render_x0
    ELSE RenderWidth(Tail(s),
            IF Head(s) = Tab THEN render_x0 + 7 - (render_x0 % 8) + 1
            ELSE render_x0 + 1)

\* Cursor::get_render_x: the slice row_content[..cursor_x] panics off a boundary
get_render_x_panics(content, x) == ~IsCharBoundary(content, x)
get_render_x(content, x) == RenderWidth(StrPrefix(content, x), 0)

\* a mutant of scroll: the window's lower edge is off by one
scroll_off_by_one(x, y, ro, co, rows, srows, scols) ==
    LET panics == y < number_of_rows(rows) /\ get_render_x_panics(get_row(rows, y), x)
        rx == IF y < number_of_rows(rows) /\ ~panics
              THEN get_render_x(get_row(rows, y), x) ELSE 0
        ro1 == Min(ro, y)
        ro2 == IF y >= ro1 + srows THEN y - srows ELSE ro1
        co1 == Min(co, rx)
        co2 == IF rx >= co1 + scols THEN rx - scols + 1 ELSE co1
    IN  [panic |-> panics, render_x |-> rx, row_offset |-> ro2, column_offset |-> co2]

\* a mutant of scroll: a window above the cursor moves down by one row a call
scroll_row_by_row(x, y, ro, co, rows, srows, scols) ==
    LET panics == y < number_of_rows(rows) /\ get_render_x_panics(get_row(rows, y), x)
        rx == IF y < number_of_rows(rows) /\ ~panics
              THEN get_render_x(get_row(rows, y), x) ELSE 0
        ro1 == Min(ro, y)
        ro2 == IF y >= ro1 + srows THEN ro1 + 1 ELSE ro1
        co1 == Min(co, rx)
        co2 == IF rx >= co1 + scols THEN rx - scols + 1 ELSE co1
    IN  [panic |-> panics, render_x |-> rx, row_offset |-> ro2, column_offset |-> co2]

\* a mutant of scroll: a window above the cursor jumps to put the cursor's row on top
scroll_cursor_to_top(x, y, ro, co, rows, srows, scols) ==
    LET panics == y < number_of_rows(rows) /\ get_render_x_panics(get_row(rows, y), x)
        rx == IF y < number_of_rows(rows) /\ ~panics
              THEN get_render_x(get_row(rows, y), x) ELSE 0
        ro1 == Min(ro, y)
        ro2 == IF y >= ro1 + srows THEN y ELSE ro1
        co1 == Min(co, rx)
        co2 == IF rx >= co1 + scols THEN rx - scols + 1 ELSE co1
    IN  [panic |-> panics, render_x |-> rx, row_offset |-> ro2, column_offset |-> co2]

\* Cursor::scroll
scroll(x, y, ro, co, rows, srows, scols) ==
    LET panics == y < number_of_rows(rows) /\ get_render_x_panics(get_row(rows, y), x)
        rx == IF y < number_of_rows(rows) /\ ~panics
              THEN get_render_x(get_row(rows, y), x) ELSE 0
        ro1 == Min(ro, y)
        ro2 == IF y >= ro1 + srows THEN y - srows + 1 ELSE ro1
        co1 == Min(co, rx)
        co2 == IF rx >= co1 + scols THEN rx - scols + 1 ELSE co1
    IN  [panic |-> panics, render_x |-> rx, row_offset |-> ro2, column_offset |-> co2]

\* the closing clamp of Cursor::move_cursor
ClampX(x, y, rows) ==
    LET row_len == IF y < number_of_rows(rows) THEN StrLen(get_row(rows, y)) ELSE 0
    IN  Min(x, row_len)

\* a mutant of the match of move_cursor: Right stops at the end of the last row
MoveStepStop(direction, x, y, rows) ==
    LET n == number_of_rows(rows)
    IN  CASE direction = "Up" -> [x |-> x, y |-> SatSub(y, 1)]
          [] direction = "Left" ->
                IF x # 0 THEN [x |-> x - 1, y |-> y]
                ELSE IF y > 0 THEN [x |-> StrLen(get_row(rows, y - 1)), y |-> y - 1]
                ELSE [x |-> x, y |-> y]
          [] direction = "Down" ->
                IF y < n THEN [x |-> x, y |-> y + 1] ELSE [x |-> x, y |-> y]
          [] direction = "Right" ->
                IF y < n
                THEN IF x < StrLen(get_row(rows, y)) THEN [x |-> x + 1, y |-> y]
                     ELSE IF x = StrLen(get_row(rows, y)) /\ y + 1 < n
                          THEN [x |-> 0, y |-> y + 1]
                     ELSE [x |-> x, y |-> y]
                ELSE [x |-> x, y |-> y]
          [] direction = "Char_d" ->
                IF y < n THEN [x |-> StrLen(get_row(rows, y)), y |-> y]
                ELSE [x |-> x, y |-> y]
          [] direction = "Char_a" -> [x |-> 0, y |-> y]

\* a mutant of the match of move_cursor: Down stops on the last row
MoveStepDownStop(direction, x, y, rows) ==
    LET n == number_of_rows(rows)
    IN  CASE direction = "Up" -> [x |-> x, y |-> SatSub(y, 1)]
          [] direction = "Left" ->
                IF x # 0 THEN [x |-> x - 1, y |-> y]
                ELSE IF y > 0 THEN [x |-> StrLen(get_row(rows, y - 1)), y |-> y - 1]
                ELSE [x |-> x, y |-> y]
          [] direction = "Down" ->
                IF y + 1 < n THEN [x |-> x, y |-> y + 1] ELSE [x |-> x, y |-> y]
          [] direction = "Right" ->
                IF y < n
                THEN IF x < StrLen(get_row(rows, y)) THEN [x |-> x + 1, y |-> y]
                     ELSE IF x = StrLen(get_row(rows, y)) THEN [x |-> 0, y |-> y + 1]
                     ELSE [x |-> x, y |-> y]
                ELSE [x |-> x, y |-> y]
          [] direction = "Char_d" ->
                IF y < n THEN [x |-> StrLen(get_row(rows, y)), y |-> y]
                ELSE [x |-> x, y |-> y]
          [] direction = "Char_a" -> [x |-> 0, y |-> y]

\* the match on `direction` of Cursor::move_cursor
MoveStep(direction, x, y, rows) ==
    LET n == number_of_rows(rows)
    IN  CASE direction = "Up" -> [x |-> x, y |-> SatSub(y, 1)]
          [] direction = "Left" ->
                IF x # 0 THEN [x |-> x - 1, y |-> y]
                ELSE IF y > 0 THEN [x |-> StrLen(get_row(rows, y - 1)), y |-> y - 1]
                ELSE [x |-> x, y |-> y]
          [] direction = "Down" ->
                IF y < n THEN [x |-> x, y |-> y + 1] ELSE [x |-> x, y |-> y]
          [] direction = "Right" ->
                IF y < n
                THEN IF x < StrLen(get_row(rows, y)) THEN [x |-> x + 1, y |-> y]
                     ELSE IF x = StrLen(get_row(rows, y)) THEN [x |-> 0, y |-> y + 1]
                     ELSE [x |-> x, y |-> y]
                ELSE [x |-> x, y |-> y]
          [] direction = "Char_d" ->
                IF y < n THEN [x |-> StrLen(get_row(rows, y)), y |-> y]
                ELSE [x |-> x, y |-> y]
          [] direction = "Char_a" -> [x |-> 0, y |-> y]

\* a mutant of move_cursor: the column is not clamped to the new row
move_cursor_unclamped(direction, x, y, rows) == MoveStep(direction, x, y, rows)

\* a mutant of move_cursor: Left from column 0 goes to the start of the row above
move_cursor_left_home(direction, x, y, rows) ==
    LET moved == MoveStep(direction, x, y, rows)
    IN  IF direction = "Left" /\ x = 0
        THEN [x |-> 0, y |-> moved.y]
        ELSE [x |-> ClampX(moved.x, moved.y, rows), y |-> moved.y]

\* Cursor::move_cursor: the match, then the clamp of cursor_x to the row's length
move_cursor(direction, x, y, rows) ==
    LET moved == MoveStep(direction, x, y, rows)
    IN  [x |-> ClampX(moved.x, moved.y, rows), y |-> moved.y]

\* the (0..win_size.1).for_each of the paging arm of button_handler
RECURSIVE MoveTimes(_, _, _, _, _)
MoveTimes(k, direction, x, y, rows) ==
    IF k = 0 THEN [x |-> x, y |-> y]
    ELSE LET m == move_cursor(direction, x, y, rows)
         IN  MoveTimes(k - 1, direction, m.x, m.y, rows)

\* a mutant of the paging arm: the cursor is not snapped to the edge of the window
page_from_cursor(val, x, y, ro, rows, srows) ==
    MoveTimes(srows, val, x, y, rows)

\* the Ctrl+Up / Ctrl+Down arm of button_handler
page(val, x, y, ro, rows, srows) ==
    LET y0 == IF val = "Up" THEN ro
              ELSE Min(srows + ro - 1, number_of_rows(rows))
    IN  MoveTimes(srows, val, x, y0, rows)

\* -------------------------------------------------------------- editing
\* the result of an editing operation of Output; panic: the operation panicked
Ed(rows, x, y) == [panic |-> FALSE, rows |-> rows, x |-> x, y |-> y]
EdPanic(rows, x, y) == [panic |-> TRUE, rows |-> rows, x |-> x, y |-> y]

\* a mutant of delete_char: the column is taken after the rows are joined, from
\* the joined row
delete_char_column_after_join(rows, x, y) ==
    IF y = number_of_rows(rows) THEN Ed(rows, x, y)
    ELSE IF y = 0 /\ x = 0 THEN Ed(rows, x, y)
    ELSE IF y > number_of_rows(rows) THEN EdPanic(rows, x, y)
    ELSE IF x > 0
         THEN IF StrRemovePanics(get_row(rows, y), x - 1) THEN EdPanic(rows, x, y)
              ELSE Ed([rows EXCEPT ![y + 1] = Line_delete_char(@, x - 1)], x - 1, y)
         ELSE Ed(join_adjacent_rows(rows, y),
                 StrLen(get_row(join_adjacent_rows(rows, y), y - 1)), y - 1)

\* Output::delete_char
delete_char(rows, x, y) ==
    IF y = number_of_rows(rows) THEN Ed(rows, x, y)
    ELSE IF y = 0 /\ x = 0 THEN Ed(rows, x, y)
    ELSE IF y > number_of_rows(rows) THEN EdPanic(rows, x, y)
    ELSE IF x > 0
         THEN IF StrRemovePanics(get_row(rows, y), x - 1) THEN EdPanic(rows, x, y)
              ELSE Ed([rows EXCEPT ![y + 1] = Line_delete_char(@, x - 1)], x - 1, y)
         ELSE Ed(join_adjacent_rows(rows, y), StrLen(get_row(rows, y - 1)), y - 1)

\* a mutant of insert_newline: the rest of the row is inserted above, not below
insert_newline_above(rows, x, y) ==
    IF x = 0
    THEN IF y > number_of_rows(rows) THEN EdPanic(rows, x, y)
         ELSE Ed(insert_row(rows, y, <<>>), 0, y + 1)
    ELSE IF y >= number_of_rows(rows) THEN EdPanic(rows, x, y)
    ELSE IF ~IsCharBoundary(get_row(rows, y), x) THEN EdPanic(rows, x, y)
    ELSE LET new_row_content == StrSuffix(get_row(rows, y), x)
             truncated == [rows EXCEPT ![y + 1] = NewLine(StrPrefix(@.row_content, x))]
         IN  Ed(insert_row(truncated, y, new_row_content), 0, y + 1)

\* Output::insert_newline
insert_newline(rows, x, y) ==
    IF x = 0
    THEN IF y > number_of_rows(rows) THEN EdPanic(rows, x, y)
         ELSE Ed(insert_row(rows, y, <<>>), 0, y + 1)
    ELSE IF y >= number_of_rows(rows) THEN EdPanic(rows, x, y)
    ELSE IF ~IsCharBoundary(get_row(rows, y), x) THEN EdPanic(rows, x, y)
    ELSE LET new_row_content == StrSuffix(get_row(rows, y), x)
             truncated == [rows EXCEPT ![y + 1] = NewLine(StrPrefix(@.row_content, x))]
         IN  Ed(insert_row(truncated, y + 1, new_row_content), 0, y + 1)

\* a mutant of insert_char: on the virtual row the new row is put first, not last
insert_char_row_first(rows, x, y, ch) ==
    LET rows1 == IF y = number_of_rows(rows)
                 THEN insert_row(rows, 0, <<>>) ELSE rows
    IN  IF y >= number_of_rows(rows1) THEN EdPanic(rows, x, y)
        ELSE IF StrInsertPanics(get_row(rows1, y), x) THEN EdPanic(rows1, x, y)
        ELSE Ed([rows1 EXCEPT ![y + 1] = Line_insert_char(@, x, ch)], x + 1, y)

\* Output::insert_char
insert_char(rows, x, y, ch) ==
    LET rows1 == IF y = number_of_rows(rows)
                 THEN insert_row(rows, number_of_rows(rows), <<>>) ELSE rows
    IN  IF y >= number_of_rows(rows1) THEN EdPanic(rows, x, y)
        ELSE IF StrInsertPanics(get_row(rows1, y), x) THEN EdPanic(rows1, x, y)
        ELSE Ed([rows1 EXCEPT ![y + 1] = Line_insert_char(@, x, ch)], x + 1, y)

\* the Backspace / Delete arm of button_handler
backspace_or_delete(key, rows, x, y) ==
    LET m == IF key = "Delete" THEN move_cursor("Right", x, y, rows)
             ELSE [x |-> x, y |-> y]
    IN  delete_char(rows, m.x, m.y)

\* ---------------------------------------------------------- save and load
Newline == "\n"

\* the UTF-8 encoding of a scalar: the wide scalar is a lead and a continuation byte
Utf8(c) == IF c = Wide THEN <<"C3", "A9">> ELSE <<c>>

RECURSIVE Encode(_)
Encode(s) == IF s = <<>> THEN <<>> ELSE Utf8(Head(s)) \o Encode(Tail(s))

\* std::str::from_utf8 on the bytes read: a lead byte needs its continuation
RECURSIVE ValidUtf8(_)
ValidUtf8(bytes) ==
    IF bytes = <<>> THEN TRUE
    ELSE IF Head(bytes) = "C3"
         THEN Len(bytes) >= 2 /\ bytes[2] = "A9" /\ ValidUtf8(Tail(Tail(bytes)))
    ELSE Head(bytes) # "A9" /\ ValidUtf8(Tail(bytes))

RECURSIVE Decode(_)
Decode(bytes) ==
    IF bytes = <<>> THEN <<>>
    ELSE IF Head(bytes) = "C3" THEN <<Wide>> \o Decode(Tail(Tail(bytes)))
    ELSE <<Head(bytes)>> \o Decode(Tail(bytes))

\* [&str]::join("\n") of the row contents
RECURSIVE JoinLines(_)
JoinLines(contents) ==
    IF contents = <<>> THEN <<>>
    ELSE IF Len(contents) = 1 THEN Head(contents)
    ELSE Head(contents) \o <<Newline>> \o JoinLines(Tail(contents))

\* str::lines on text without carriage returns: split at each "\n", the last
\* line's terminator optional, so a final empty piece is no line
RECURSIVE SplitLines(_, _)
SplitLines(text, cur) ==
    IF text = <<>> THEN (IF cur = <<>> THEN <<>> ELSE <<cur>>)
    ELSE IF Head(text) = Newline THEN <<cur>> \o SplitLines(Tail(text), <<>>)
    ELSE SplitLines(Tail(text), Append(cur, Head(text)))

lines(text) == SplitLines(text, <<>>)

NoFile == [bytes |-> <<>>, exists |-> FALSE]
File(bytes) == [bytes |-> bytes, exists |-> TRUE]

None == [some |-> FALSE, name |-> <<>>]
Some(name) == [some |-> TRUE, name |-> name]

\* fs::read_to_string(..).expect(..) panics on a missing file or invalid UTF-8
from_file_panics(disk) == ~disk.exists \/ ~ValidUtf8(disk.bytes)

\* EditorRows::from_file: the rows built from the file's lines
from_file(disk) ==
    LET ls == lines(Decode(disk.bytes))
    IN  [i \in 1..Len(ls) |-> NewLine(ls[i])]

\* File::set_len: truncates, or extends with zero bytes
SetLen(bytes, n) ==
    IF n <= Len(bytes) THEN SubSeq(bytes, 1, n)
    ELSE bytes \o [i \in 1..(n - Len(bytes)) |-> "NUL"]

\* the first k bytes of `data` written at offset 0 of a freshly opened file
WriteAtStart(bytes, data, k) ==
    SubSeq(data, 1, k) \o SubSeq(bytes, k + 1, Len(bytes))

\* a mutant of save: the file is not set to the new length before the write
save_no_set_len(name, rows, disk, fail, k) ==
    LET contents == Encode(JoinLines(Contents(rows)))
        opened == IF disk.exists THEN disk.bytes ELSE <<>>
    IN  IF ~name.some THEN [ok |-> FALSE, disk |-> disk, len |-> 0]
        ELSE IF fail = "open" THEN [ok |-> FALSE, disk |-> disk, len |-> 0]
        ELSE IF fail = "set_len" THEN [ok |-> FALSE, disk |-> File(opened), len |-> 0]
        ELSE IF fail = "write"
             THEN [ok |-> FALSE, disk |-> File(WriteAtStart(opened, contents, k)), len |-> 0]
        ELSE [ok |-> TRUE, disk |-> File(WriteAtStart(opened, contents, Len(contents))),
              len |-> Len(contents)]

\* EditorRows::save; fail names the system call that fails ("none": all succeed),
\* k the bytes a failing write_all had already written
save(name, rows, disk, fail, k) ==
    LET contents == Encode(JoinLines(Contents(rows)))
        opened == IF disk.exists THEN disk.bytes ELSE <<>>
        sized == SetLen(opened, Len(contents))
    IN  IF ~name.some THEN [ok |-> FALSE, disk |-> disk, len |-> 0]
        ELSE IF fail = "open" THEN [ok |-> FALSE, disk |-> disk, len |-> 0]
        ELSE IF fail = "set_len" THEN [ok |-> FALSE, disk |-> File(opened), len |-> 0]
        ELSE IF fail = "write"
             THEN [ok |-> FALSE, disk |-> File(WriteAtStart(sized, contents, k)), len |-> 0]
        ELSE [ok |-> TRUE, disk |-> File(WriteAtStart(sized, contents, Len(contents))),
              len |-> Len(contents)]

SaveFailures == {"none", "open", "set_len", "write"}

\* --------------------------------------------------------- frame builder
\* the slice &row[start..start + len] of Output::draw_rows, on some visible row
draw_rows_panics(rows, ro, co, srows, scols) ==
    \E i \in 0..(srows - 1) :
        /\ i + ro < number_of_rows(rows)
        /\ LET row == get_render(rows, i + ro)
               len == Min(SatSub(StrLen(row), co), scols)
               start == IF len = 0 THEN 0 ELSE co
           IN  ~IsCharBoundary(row, start) \/ ~IsCharBoundary(row, start + len)

\* the slice &info[..info_len] of Output::draw_status_bar: info starts with the
\* file name and goes on in ASCII
draw_status_bar_panics(name, scols) ==
    name.some /\ scols < StrLen(name.name) /\ ~IsCharBoundary(name.name, scols)

\* the status messages the program sets
Msg(kind, arg) == [kind |-> kind, arg |-> arg]
HelpMsg == Msg("help", <<>>)
EmptyMsg == Msg("empty", <<>>)
AbortedMsg == Msg("aborted", <<>>)
PromptMsg(text) == Msg("prompt", text)
SavedMsg(name) == Msg("saved", name)

\* the bytes before the interpolated text: `(Enter File Name : ` and `Some("`
PromptPrefixLen == 19
SavedPrefixLen == 6

\* the {:?} form of the file name: a tab is written as backslash, t
RECURSIVE DebugStr(_)
DebugStr(name) ==
    IF name = <<>> THEN <<>>
    ELSE (IF Head(name) = Tab THEN <<"\\", "t">> ELSE <<Head(name)>>) \o DebugStr(Tail(name))

\* the head of the message text, up to the end of the interpolated part
MsgHead(m) ==
    CASE m.kind = "prompt" -> [i \in 1..PromptPrefixLen |-> "x"] \o m.arg
      [] m.kind = "saved" -> [i \in 1..SavedPrefixLen |-> "x"] \o DebugStr(m.arg)
      [] OTHER -> <<>>

\* the slice &msg[..min(win_size.0, msg.len())] of Output::draw_message_bar
draw_message_bar_panics(m, scols) ==
    scols < StrLen(MsgHead(m)) /\ ~IsCharBoundary(MsgHead(m), scols)

\* ---------------------------------------------------------------- state
VARIABLES
    row_contents,    \* EditorRows::row_contents: the Lines
    filename,        \* EditorRows::filename
    cursor_x,        \* Cursor::cursor_x, a byte column
    cursor_y,        \* Cursor::cursor_y
    row_offset,      \* Cursor::row_offset
    column_offset,   \* Cursor::column_offset
    render_x,        \* Cursor::render_x
    screen_rows,     \* Output::win_size.1
    screen_columns,  \* Output::win_size.0
    status_message,  \* Output::status_message
    input,           \* the prompt's local input
    written,         \* what the key dispatched last left in the file it saved to
    reloaded,        \* the rows a later session loads from the saved file
    pc,              \* where the session loop stands
    last_key,        \* the key dispatched last, until the next frame
    terminal,        \* the terminal: its mode, its screen, how Reset::drop went
    editor_contents, \* EditorContents::content, while a frame is put together
    stdout,          \* what the frame last flushed wrote to standard output
    before_enter     \* the rows and the cursor before the Enter just pressed, if noted

vars == <<row_contents, filename, cursor_x, cursor_y, row_offset, column_offset,
          render_x, screen_rows, screen_columns, status_message, input, written,
          reloaded, pc, last_key, terminal, editor_contents, stdout, before_enter>>

cursor_vars == <<cursor_x, cursor_y>>
view_vars == <<row_offset, column_offset, render_x>>
\* the output buffer and the output: the session takes a frame as one step, with
\* the buffer empty before and after it; the steps of a frame follow further down
frame_vars == <<editor_contents, stdout>>
size_vars == <<screen_rows, screen_columns, reloaded, before_enter, terminal, frame_vars>>

\* no Enter is noted
NoBefore == [rows |-> <<>>, x |-> 0, y |-> 0, set |-> FALSE]

\* the terminal as main finds it, and as the session has it: raw mode enabled,
\* the screen holding frames
Cooked == [raw_mode |-> FALSE, cleared |-> FALSE, drop |-> "none"]
Raw == [raw_mode |-> TRUE, cleared |-> FALSE, drop |-> "none"]

\* the characters typed into the prompt, and the texts they may add up to
PromptChars == {"a", Wide}
PromptTexts == {<<>>, <<"a">>, <<"a", Wide>>}

\* the name given on the command line
ArgName == <<"a">>

\* the terminal sizes (columns, rows less the two bars) a session may start in
WinSizes == {<<1, 1>>, <<2, 2>>}

\* no save happened
NoWrite == [disk |-> NoFile, ok |-> FALSE, len |-> 0, saved |-> FALSE, before |-> NoFile]

\* a save found the file as `old` and left it as r.disk, returning r.len when ok
Write(old, r) ==
    [disk |-> r.disk, ok |-> r.ok, len |-> r.len, saved |-> TRUE, before |-> old]

\* what the target path may hold before a save: the file belongs to the
\* file system, not to the session
OldFiles == {NoFile, File(<<"a", Newline, "a", Newline, "a", Newline>>)}

\* the files a session may be started on
LoadFiles == {File(<<>>), File(<<"a", Newline>>), File(<<Tab, Newline, Newline>>),
              File(<<"C3", "A9">>), File(<<"a", Newline, Tab>>)}

InBounds(rows) == Len(rows) <= MaxRows /\ TotalBytes(rows) <= MaxBytes

\* Editor::new: Output::new with Cursor::new, EditorRows::new and Help::new
Init ==
    /\ \E size \in WinSizes : screen_columns = size[1] /\ screen_rows = size[2]
    /\ \/ /\ filename = None
          /\ row_contents = <<>>
       \/ /\ filename = Some(ArgName)
          /\ \E file \in LoadFiles :
                /\ ~from_file_panics(file)
                /\ row_contents = from_file(file)
          /\ InBounds(row_contents)
    /\ written = NoWrite
    /\ reloaded = <<>>
    /\ before_enter = NoBefore
    /\ editor_contents = <<>>
    /\ stdout = <<>>
    /\ cursor_x = 0
    /\ cursor_y = 0
    /\ row_offset = 0
    /\ column_offset = 0
    /\ render_x = 0
    /\ status_message = HelpMsg
    /\ input = <<>>
    /\ pc = "render"
    /\ last_key = "none"
    /\ terminal = Raw

\* main is left, by Ctrl+Q ("quit"), by an error that `?` passes up ("error")
\* or by a panic ("panicked"): the process ends and the editor it held, buffer,
\* cursor and messages, is dropped with it
Exit(how) ==
    /\ pc' = how
    /\ row_contents' = <<>>
    /\ filename' = None
    /\ cursor_x' = 0
    /\ cursor_y' = 0
    /\ row_offset' = 0
    /\ column_offset' = 0
    /\ render_x' = 0
    /\ status_message' = EmptyMsg
    /\ input' = <<>>

\* Output::refresh_screen showing message msg, then on to `next`; flush_ok: the
\* write to stdout succeeds. Frames follow each other within the display time
\* of a message, so that Help::message returns it.
refresh_screen(msg, next, flush_ok) ==
    LET s == scroll(cursor_x, cursor_y, row_offset, column_offset, row_contents,
                    screen_rows, screen_columns)
    IN  IF s.panic
        THEN Exit("panicked")
        ELSE IF \/ draw_rows_panics(row_contents, s.row_offset, s.column_offset,
                                    screen_rows, screen_columns)
                \/ draw_status_bar_panics(filename, screen_columns)
                \/ draw_message_bar_panics(msg, screen_columns)
        THEN Exit("panicked")
        ELSE IF ~flush_ok
        THEN Exit("error")
        ELSE /\ render_x' = s.render_x
             /\ row_offset' = s.row_offset
             /\ column_offset' = s.column_offset
             /\ status_message' = msg
             /\ pc' = next
             /\ UNCHANGED <<row_contents, filename, cursor_vars, input>>

\* Editor::run, first half: one frame
Render ==
    /\ pc = "render"
    /\ \E flush_ok \in BOOLEAN : refresh_screen(status_message, "key", flush_ok)
    /\ last_key' = "none"
    /\ written' = NoWrite
    /\ UNCHANGED size_vars

\* Reader::read_key returns an error, which `?` passes up to main
ReadKeyError ==
    /\ pc \in {"key", "prompt_key"}
    /\ Exit("error")
    /\ last_key' = "none"
    /\ UNCHANGED <<size_vars, written>>

\* Ctrl+Q
KeyQuit ==
    /\ pc = "key"
    /\ Exit("quit")
    /\ last_key' = "CtrlQ"
    /\ UNCHANGED <<size_vars, written>>

\* Ctrl+A, Ctrl+D and the plain arrow keys
KeyMove(direction) ==
    /\ pc = "key"
    /\ LET m == move_cursor(direction, cursor_x, cursor_y, row_contents)
       IN  cursor_x' = m.x /\ cursor_y' = m.y
    /\ pc' = "render"
    /\ last_key' = direction
    /\ UNCHANGED <<row_contents, filename, view_vars, size_vars, status_message,
                   input, written>>

\* Ctrl+Up and Ctrl+Down
KeyPage(val) ==
    /\ pc = "key"
    /\ LET m == page(val, cursor_x, cursor_y, row_offset, row_contents, screen_rows)
       IN  cursor_x' = m.x /\ cursor_y' = m.y
    /\ pc' = "render"
    /\ last_key' = (IF val = "Up" THEN "CtrlUp" ELSE "CtrlDown")
    /\ UNCHANGED <<row_contents, filename, view_vars, size_vars, status_message,
                   input, written>>

\* the effect of an editing operation on the session
Apply(r) ==
    /\ InBounds(r.rows)
    /\ IF r.panic
       THEN Exit("panicked")
       ELSE /\ row_contents' = r.rows
            /\ cursor_x' = r.x
            /\ cursor_y' = r.y
            /\ pc' = "render"
            /\ UNCHANGED <<filename, view_vars, status_message, input>>
    /\ UNCHANGED <<size_vars, written>>

\* Backspace and Delete
KeyErase(key) ==
    /\ pc = "key"
    /\ Apply(backspace_or_delete(key, row_contents, cursor_x, cursor_y))
    /\ last_key' = key

\* Enter
KeyEnter ==
    /\ pc = "key"
    /\ Apply(insert_newline(row_contents, cursor_x, cursor_y))
    /\ last_key' = "Enter"

\* Tab or a character, plain or with Shift
KeyChar(ch) ==
    /\ pc = "key"
    /\ Apply(insert_char(row_contents, cursor_x, cursor_y, ch))
    /\ last_key' = "Char"

\* a key event: KeyEvent { code, modifiers }, `ch` the character of KeyCode::Char
Ev(code, ch, modifiers) == [code |-> code, ch |-> ch, modifiers |-> modifiers]

\* a mutant of the match of button_handler: Enter and Backspace / Delete are taken
\* with any modifiers
button_arm_any_modifiers(ev) ==
    CASE ev.code = "Char" /\ ev.ch = "q" /\ ev.modifiers = "CONTROL" -> "CtrlQ"
      [] ev.code = "Char" /\ ev.ch \in {"a", "d"} /\ ev.modifiers = "CONTROL" -> "Move"
      [] ev.code \in {"Up", "Down", "Left", "Right"} /\ ev.modifiers = "NONE" -> "Move"
      [] ev.code \in {"Up", "Down"} /\ ev.modifiers = "CONTROL" -> "Page"
      [] ev.code = "Char" /\ ev.ch = "s" /\ ev.modifiers = "CONTROL" -> "CtrlS"
      [] ev.code \in {"Backspace", "Delete"} -> "Erase"
      [] ev.code = "Enter" -> "Enter"
      [] ev.code \in {"Char", "Tab"} /\ ev.modifiers \in {"NONE", "SHIFT"} -> "Char"
      [] OTHER -> "Other"

\* the match of Editor::button_handler: the arm a key event is taken by
button_arm(ev) ==
    CASE ev.code = "Char" /\ ev.ch = "q" /\ ev.modifiers = "CONTROL" -> "CtrlQ"
      [] ev.code = "Char" /\ ev.ch \in {"a", "d"} /\ ev.modifiers = "CONTROL" -> "Move"
      [] ev.code \in {"Up", "Down", "Left", "Right"} /\ ev.modifiers = "NONE" -> "Move"
      [] ev.code \in {"Up", "Down"} /\ ev.modifiers = "CONTROL" -> "Page"
      [] ev.code = "Char" /\ ev.ch = "s" /\ ev.modifiers = "CONTROL" -> "CtrlS"
      [] ev.code \in {"Backspace", "Delete"} /\ ev.modifiers = "NONE" -> "Erase"
      [] ev.code = "Enter" /\ ev.modifiers = "NONE" -> "Enter"
      [] ev.code \in {"Char", "Tab"} /\ ev.modifiers \in {"NONE", "SHIFT"} -> "Char"
      [] OTHER -> "Other"

\* key events the terminal may deliver, some of them in the match, some not
KeyEvents ==
    {Ev("Char", "x", "CONTROL"), Ev("Char", "a", "ALT"), Ev("Char", "a", "NONE"),
     Ev("Enter", "", "SHIFT"), Ev("Enter", "", "NONE"),
     Ev("Backspace", "", "CONTROL"), Ev("Delete", "", "NONE"),
     Ev("Esc", "", "NONE"), Ev("F", "", "NONE"),
     Ev("Left", "", "CONTROL"), Ev("Right", "", "CONTROL"), Ev("Up", "", "CONTROL"),
     Ev("Tab", "", "ALT")}

\* any other key event: the `_ => {}` arm
KeyOther ==
    /\ pc = "key"
    /\ {ev \in KeyEvents : button_arm(ev) = "Other"} # {}
    /\ pc' = "render"
    /\ last_key' = "Other"
    /\ UNCHANGED <<row_contents, filename, cursor_vars, view_vars, size_vars,
                   status_message, input, written>>

\* the end of the Ctrl+S arm, with the file name `name`: the name is stored,
\* then save is called; on success the message is set, on failure `?` passes
\* the error up to main
SaveAs(name) ==
    \E old \in OldFiles, fail \in SaveFailures :
    \E k \in 0..Len(Encode(JoinLines(Contents(row_contents)))) :
       /\ fail = "write" <=> k < Len(Encode(JoinLines(Contents(row_contents))))
       /\ LET r == save(name, row_contents, old, fail, k)
          IN  /\ written' = Write(old, r)
              /\ IF r.ok
                 THEN /\ filename' = name
                      /\ status_message' = SavedMsg(name.name)
                      /\ input' = <<>>
                      /\ pc' = "render"
                      /\ UNCHANGED <<row_contents, cursor_vars, view_vars>>
                 ELSE Exit("error")

\* Ctrl+S: with a file name, save; without, open the prompt
KeySave ==
    /\ pc = "key"
    /\ last_key' = "CtrlS"
    /\ IF filename.some
       THEN SaveAs(filename)
       ELSE /\ input' = <<>>
            /\ pc' = "prompt_render"
            /\ UNCHANGED <<row_contents, filename, cursor_vars, view_vars,
                           status_message, written>>
    /\ UNCHANGED size_vars

\* prompt!, the head of the loop: set the message, draw a frame
PromptRender ==
    /\ pc = "prompt_render"
    /\ \E flush_ok \in BOOLEAN :
          refresh_screen(PromptMsg(input), "prompt_key", flush_ok)
    /\ UNCHANGED <<size_vars, written, last_key>>

\* prompt!, Enter: with input, leave the loop; Ctrl+S goes on to name the file
\* and save
PromptEnter ==
    /\ pc = "prompt_key"
    /\ last_key' = "PromptEnter"
    /\ IF input # <<>>
       THEN SaveAs(Some(input))
       ELSE /\ pc' = "prompt_render"
            /\ UNCHANGED <<row_contents, filename, cursor_vars, view_vars,
                           status_message, input, written>>
    /\ UNCHANGED size_vars

\* a mutant of the Esc arm: the input is not cleared, so what was typed is the name
PromptEscKeepsInput ==
    /\ pc = "prompt_key"
    /\ last_key' = "PromptEsc"
    /\ IF input # <<>>
       THEN SaveAs(Some(input))
       ELSE /\ input' = <<>>
            /\ status_message' = AbortedMsg
            /\ pc' = "render"
            /\ UNCHANGED <<row_contents, filename, cursor_vars, view_vars, written>>
    /\ UNCHANGED size_vars

\* prompt!, Esc with any modifier: no input; Ctrl+S reports the aborted save
PromptEsc ==
    /\ pc = "prompt_key"
    /\ last_key' = "PromptEsc"
    /\ input' = <<>>
    /\ status_message' = AbortedMsg
    /\ pc' = "render"
    /\ UNCHANGED <<row_contents, filename, cursor_vars, view_vars, size_vars, written>>

\* String::pop
Pop(text) == IF text = <<>> THEN <<>> ELSE SubSeq(text, 1, Len(text) - 1)

\* prompt!, Backspace or Delete
PromptErase ==
    /\ pc = "prompt_key"
    /\ last_key' = "PromptErase"
    /\ input' = Pop(input)
    /\ pc' = "prompt_render"
    /\ UNCHANGED <<row_contents, filename, cursor_vars, view_vars, size_vars,
                   status_message, written>>

\* a mutant of the Char arm of prompt!: the character is put in front of the input
PromptCharInFront(ch) ==
    /\ pc = "prompt_key"
    /\ Append(input, ch) \in PromptTexts
    /\ last_key' = "PromptChar"
    /\ input' = <<ch>> \o input
    /\ pc' = "prompt_render"
    /\ UNCHANGED <<row_contents, filename, cursor_vars, view_vars, size_vars,
                   status_message, written>>

\* prompt!, Tab or a character, plain or with Shift
PromptChar(ch) ==
    /\ pc = "prompt_key"
    /\ Append(input, ch) \in PromptTexts
    /\ last_key' = "PromptChar"
    /\ input' = Append(input, ch)
    /\ pc' = "prompt_render"
    /\ UNCHANGED <<row_contents, filename, cursor_vars, view_vars, size_vars,
                   status_message, written>>

\* prompt!, any other key event
PromptOther ==
    /\ pc = "prompt_key"
    /\ last_key' = "PromptOther"
    /\ pc' = "prompt_render"
    /\ UNCHANGED <<row_contents, filename, cursor_vars, view_vars, size_vars,
                   status_message, input, written>>

\* a mutant of Reset::drop: a panic ends the process without unwinding main
ResetDropOnReturn ==
    /\ pc \in {"quit", "error"}
    /\ pc' = "exited"
    /\ \E disable_ok, clear_ok \in BOOLEAN :
          terminal' = IF ~disable_ok
                      THEN [terminal EXCEPT !.drop = "disable_failed"]
                      ELSE IF ~clear_ok
                      THEN [terminal EXCEPT !.raw_mode = FALSE, !.drop = "clear_failed"]
                      ELSE [raw_mode |-> FALSE, cleared |-> TRUE, drop |-> "done"]
    /\ UNCHANGED <<row_contents, filename, cursor_vars, view_vars, screen_rows,
                   screen_columns, reloaded, before_enter, status_message, input, written, last_key,
                   frame_vars>>

\* Reset::drop, run when main returns and when a panic unwinds it: raw mode is
\* disabled, then the screen cleared; either call may fail, and its expect
\* panics, leaving the rest of drop undone
ResetDrop ==
    /\ pc \in {"quit", "error", "panicked"}
    /\ pc' = "exited"
    /\ \E disable_ok, clear_ok \in BOOLEAN :
          terminal' = IF ~disable_ok
                      THEN [terminal EXCEPT !.drop = "disable_failed"]
                      ELSE IF ~clear_ok
                      THEN [terminal EXCEPT !.raw_mode = FALSE, !.drop = "clear_failed"]
                      ELSE [raw_mode |-> FALSE, cleared |-> TRUE, drop |-> "done"]
    /\ UNCHANGED <<row_contents, filename, cursor_vars, view_vars, screen_rows,
                   screen_columns, reloaded, before_enter, status_message, input, written, last_key,
                   frame_vars>>

Next ==
    \/ Render
    \/ ReadKeyError
    \/ KeyQuit
    \/ \E direction \in {"Char_a", "Char_d", "Up", "Down", "Left", "Right"} :
          KeyMove(direction)
    \/ \E val \in {"Up", "Down"} : KeyPage(val)
    \/ KeySave
    \/ \E key \in {"Backspace", "Delete"} : KeyErase(key)
    \/ KeyEnter
    \/ \E ch \in Chars : KeyChar(ch)
    \/ KeyOther
    \/ PromptRender
    \/ PromptEnter
    \/ PromptEsc
    \/ PromptErase
    \/ \E ch \in PromptChars : PromptChar(ch)
    \/ PromptOther
    \/ ResetDrop

Spec == Init /\ [][Next]_vars

\* ---------------------------------------------------- main, from its start
\* the files main may be started on: those of LoadFiles, a missing one, one that
\* is not UTF-8
StartFiles == LoadFiles \union {NoFile, File(<<"A9">>)}

\* main is entered: _reset is made, nothing else yet
InitMain ==
    /\ row_contents = <<>>
    /\ filename = None
    /\ cursor_x = 0
    /\ cursor_y = 0
    /\ row_offset = 0
    /\ column_offset = 0
    /\ render_x = 0
    /\ screen_rows = 0
    /\ screen_columns = 0
    /\ status_message = EmptyMsg
    /\ input = <<>>
    /\ written = NoWrite
    /\ reloaded = <<>>
    /\ before_enter = NoBefore
    /\ editor_contents = <<>>
    /\ stdout = <<>>
    /\ pc = "start"
    /\ last_key = "none"
    /\ terminal = Cooked

\* terminal::enable_raw_mode()?
EnableRawMode ==
    /\ pc = "start"
    /\ \E ok \in BOOLEAN :
          IF ok THEN terminal' = Raw /\ pc' = "setup"
          ELSE UNCHANGED terminal /\ pc' = "error"
    /\ UNCHANGED <<row_contents, filename, cursor_vars, view_vars, screen_rows,
                   screen_columns, reloaded, before_enter, status_message, input, written, last_key,
                   frame_vars>>

\* Editor::new: the size query's unwrap and from_file's expect panic, or the
\* session starts
Setup ==
    /\ pc = "setup"
    /\ \/ /\ \E size_ok \in BOOLEAN, file \in StartFiles :
                ~size_ok \/ from_file_panics(file)
          /\ pc' = "panicked"
          /\ UNCHANGED <<row_contents, filename, cursor_vars, view_vars, screen_rows,
                         screen_columns, reloaded, before_enter, status_message, input, written,
                         last_key, terminal, frame_vars>>
       \/ /\ \E size \in WinSizes : screen_columns' = size[1] /\ screen_rows' = size[2]
          /\ \/ /\ filename' = None
                /\ row_contents' = <<>>
             \/ /\ filename' = Some(ArgName)
                /\ \E file \in StartFiles :
                      /\ ~from_file_panics(file)
                      /\ row_contents' = from_file(file)
                /\ InBounds(row_contents')
          /\ status_message' = HelpMsg
          /\ pc' = "render"
          /\ UNCHANGED <<cursor_vars, view_vars, reloaded, before_enter, input, written, last_key,
                         terminal, frame_vars>>

NextMain == EnableRawMode \/ Setup \/ Next

\* main runs on, and once it is left Reset::drop runs
SpecMain == InitMain /\ [][NextMain]_vars /\ WF_vars(ResetDrop)

\* ------------------------------------------------- save and load, on their own
\* every text of at most MaxBytes bytes
Texts ==
    {t \in UNION {[1..k -> Chars] : k \in 0..MaxBytes} : StrLen(t) <= MaxBytes}

\* every buffer within the bounds: the editing keys reach each of them
Buffers ==
    {b \in UNION {[1..n -> {NewLine(t) : t \in Texts}] : n \in 0..MaxRows} : InBounds(b)}

\* what the target path may hold before the first save
FilesBefore ==
    OldFiles \union {File(<<>>), File(<<"a">>), File(<<"A9", Newline>>)}

\* a buffer with a file name, and the file as it is before the first save
InitFile ==
    /\ row_contents \in Buffers
    /\ filename = Some(ArgName)
    /\ \E old \in FilesBefore : written = [NoWrite EXCEPT !.disk = old]
    /\ reloaded = <<>>
    /\ before_enter = NoBefore
    /\ editor_contents = <<>>
    /\ stdout = <<>>
    /\ cursor_x = 0
    /\ cursor_y = 0
    /\ row_offset = 0
    /\ column_offset = 0
    /\ render_x = 0
    /\ screen_columns = 1
    /\ screen_rows = 1
    /\ status_message = HelpMsg
    /\ input = <<>>
    /\ pc = "file"
    /\ last_key = "none"
    /\ terminal = Raw

\* EditorRows::save on the file as the last save, if any, left it
FileSave ==
    /\ pc = "file"
    /\ written.saved => written.ok
    /\ \E fail \in SaveFailures :
       \E k \in 0..Len(Encode(JoinLines(Contents(row_contents)))) :
          /\ fail = "write" <=> k < Len(Encode(JoinLines(Contents(row_contents))))
          /\ written' = Write(written.disk,
                              save(filename, row_contents, written.disk, fail, k))
    /\ UNCHANGED <<row_contents, filename, cursor_vars, view_vars, size_vars,
                   status_message, input, pc, last_key>>

\* EditorRows::from_file, by a session started on the file as it is now
FileLoad ==
    /\ pc = "file"
    /\ IF from_file_panics(written.disk)
       THEN pc' = "panicked" /\ UNCHANGED reloaded
       ELSE pc' = "loaded" /\ reloaded' = from_file(written.disk)
    /\ UNCHANGED <<row_contents, filename, cursor_vars, view_vars, screen_rows,
                   screen_columns, status_message, input, written, last_key, terminal,
                   frame_vars, before_enter>>

NextFile == FileSave \/ FileLoad

SpecFile == InitFile /\ [][NextFile]_vars

\* ------------------------------------------------------ scroll, on its own
\* the offsets a frame may find: left by earlier frames over other buffers
RowOffsets == 0..(MaxRows + 1)
ColumnOffsets == {0, 1, 7, 8, 9}

\* any buffer, any cursor in it, any offsets, before Cursor::scroll runs
InitScroll ==
    /\ row_contents \in Buffers
    /\ filename = None
    /\ cursor_y \in 0..number_of_rows(row_contents)
    /\ cursor_x \in 0..(IF cursor_y < number_of_rows(row_contents)
                         THEN StrLen(get_row(row_contents, cursor_y)) ELSE 0)
    /\ row_offset \in RowOffsets
    /\ column_offset \in ColumnOffsets
    /\ render_x = 0
    /\ \E size \in WinSizes : screen_columns = size[1] /\ screen_rows = size[2]
    /\ written = NoWrite
    /\ reloaded = <<>>
    /\ before_enter = NoBefore
    /\ editor_contents = <<>>
    /\ stdout = <<>>
    /\ status_message = HelpMsg
    /\ input = <<>>
    /\ pc = "unscrolled"
    /\ last_key = "none"
    /\ terminal = Raw

\* Cursor::scroll on the state as it is
ScrollStep(next) ==
    LET s == scroll(cursor_x, cursor_y, row_offset, column_offset, row_contents,
                    screen_rows, screen_columns)
    IN  /\ IF s.panic
           THEN pc' = "panicked" /\ UNCHANGED view_vars
           ELSE /\ render_x' = s.render_x
                /\ row_offset' = s.row_offset
                /\ column_offset' = s.column_offset
                /\ pc' = next
        /\ UNCHANGED <<row_contents, filename, cursor_vars, size_vars, status_message,
                       input, written, last_key>>

\* the first call
ScrollOnce == pc = "unscrolled" /\ ScrollStep("scrolled")

\* a second call with nothing changed in between
ScrollAgain == pc = "scrolled" /\ ScrollStep("rescrolled")

NextScroll == ScrollOnce \/ ScrollAgain

SpecScroll == InitScroll /\ [][NextScroll]_vars

\* ------------------------------------------------ a frame, step by step
\* what is queued into the output buffer: a command or a piece of text
Tok(op, arg) == [arg |-> arg, op |-> op]

\* one pass of the loop of Output::draw_rows, for screen row i
draw_row(i, rows, ro, co, scols) ==
    LET file_row == i + ro
        n == number_of_rows(rows)
        padding == (scols - Min(1, scols)) \div 2
        welcome == (IF padding # 0 THEN <<"1">> \o Spaces(padding - 1) ELSE <<>>)
                       \o Spaces(Min(1, scols))
        row == get_render(rows, file_row)
        len == Min(SatSub(StrLen(row), co), scols)
        start == IF len = 0 THEN 0 ELSE co
    IN  << IF file_row >= n
           THEN IF n = 0 /\ i = 0 THEN Tok("text", welcome)
                ELSE Tok("line_number", <<i + 1>>)
           ELSE Tok("text", StrSuffix(StrPrefix(row, start + len), start)),
           Tok("ClearUntilNewLine", <<>>),
           Tok("CRLF", <<>>) >>

\* Output::draw_rows: the screen rows from the top
RECURSIVE draw_rows(_, _, _, _, _)
draw_rows(k, rows, ro, co, scols) ==
    IF k = 0 THEN <<>>
    ELSE draw_rows(k - 1, rows, ro, co, scols) \o draw_row(k - 1, rows, ro, co, scols)

\* Output::draw_status_bar: the bar in reverse video, with the name and the counts
draw_status_bar(name, rows, y) ==
    << Tok("Reverse", <<>>),
       Tok("status", <<number_of_rows(rows), y + 1>>),
       Tok("Reset", <<>>),
       Tok("CRLF", <<>>) >>

\* Output::draw_message_bar: the message, cut to the width of the window
draw_message_bar(m) == << Tok("ClearUntilNewLine", <<>>), Tok("message", <<m.kind>>) >>

\* the messages a frame may find set
FrameMsgs == {HelpMsg, AbortedMsg}

\* any buffer, any cursor in it, with or without a file name, before a frame
InitFrame ==
    /\ row_contents \in Buffers
    /\ filename \in {None, Some(ArgName)}
    /\ cursor_y \in 0..number_of_rows(row_contents)
    /\ cursor_x \in 0..(IF cursor_y < number_of_rows(row_contents)
                         THEN StrLen(get_row(row_contents, cursor_y)) ELSE 0)
    /\ row_offset \in {0, 1}
    /\ column_offset \in {0, 1}
    /\ render_x = 0
    /\ \E size \in WinSizes : screen_columns = size[1] /\ screen_rows = size[2]
    /\ written = NoWrite
    /\ reloaded = <<>>
    /\ before_enter = NoBefore
    /\ editor_contents = <<>>
    /\ stdout = <<>>
    /\ status_message \in FrameMsgs
    /\ input = <<>>
    /\ pc = "frame_scroll"
    /\ last_key = "none"
    /\ terminal = Raw

\* what no step of a frame changes
frame_fixed == <<row_contents, filename, cursor_vars, screen_rows, screen_columns,
                 reloaded, before_enter, terminal, status_message, input, written, last_key>>

\* one statement of refresh_screen that queues `toks`, or panics
FrameQueue(at, panics, toks, next) ==
    /\ pc = at
    /\ IF panics
       THEN pc' = "panicked" /\ UNCHANGED editor_contents
       ELSE pc' = next /\ editor_contents' = editor_contents \o toks
    /\ UNCHANGED <<frame_fixed, view_vars, stdout>>

\* self.cursor_controller.scroll(&self.editor_rows)
FrameScroll ==
    /\ pc = "frame_scroll"
    /\ LET s == scroll(cursor_x, cursor_y, row_offset, column_offset, row_contents,
                       screen_rows, screen_columns)
       IN  IF s.panic
           THEN pc' = "panicked" /\ UNCHANGED view_vars
           ELSE /\ render_x' = s.render_x
                /\ row_offset' = s.row_offset
                /\ column_offset' = s.column_offset
                /\ pc' = "frame_hide"
    /\ UNCHANGED <<frame_fixed, frame_vars>>

\* queue!(self.editor_contents, cursor::Hide, cursor::MoveTo(0, 0))
FrameHide ==
    FrameQueue("frame_hide", FALSE,
               <<Tok("Hide", <<>>), Tok("MoveTo", <<0, 0>>)>>, "frame_rows")

\* self.draw_rows()
FrameRows ==
    FrameQueue("frame_rows",
               draw_rows_panics(row_contents, row_offset, column_offset,
                                screen_rows, screen_columns),
               draw_rows(screen_rows, row_contents, row_offset, column_offset,
                         screen_columns),
               "frame_status")

\* self.draw_status_bar()
FrameStatus ==
    FrameQueue("frame_status", draw_status_bar_panics(filename, screen_columns),
               draw_status_bar(filename, row_contents, cursor_y), "frame_message")

\* self.draw_message_bar()
FrameMessage ==
    FrameQueue("frame_message", draw_message_bar_panics(status_message, screen_columns),
               draw_message_bar(status_message), "frame_cursor")

\* queue!(self.editor_contents, cursor::MoveTo(cursor_x, cursor_y), cursor::Show)
FrameCursor ==
    FrameQueue("frame_cursor", FALSE,
               <<Tok("MoveTo", <<render_x - column_offset, cursor_y - row_offset>>),
                 Tok("Show", <<>>)>>,
               "frame_flush")

\* a mutant of EditorContents::flush: the buffer is not cleared
FrameFlushKeepsBuffer ==
    /\ pc = "frame_flush"
    /\ \E write_ok, flush_ok \in BOOLEAN :
          /\ stdout' = IF write_ok THEN editor_contents ELSE stdout
          /\ UNCHANGED editor_contents
          /\ pc' = IF flush_ok /\ write_ok THEN "key" ELSE "error"
    /\ UNCHANGED <<frame_fixed, view_vars>>

\* self.editor_contents.flush(): the buffer is written to standard output, which
\* is flushed; if that fails the error is returned at once, else the buffer is
\* cleared and the result of the write returned. After it Editor::run reads a key.
FrameFlush ==
    /\ pc = "frame_flush"
    /\ \E write_ok, flush_ok \in BOOLEAN :
          /\ stdout' = IF write_ok THEN editor_contents ELSE stdout
          /\ IF flush_ok
             THEN /\ editor_contents' = <<>>
                  /\ pc' = IF write_ok THEN "key" ELSE "error"
             ELSE /\ UNCHANGED editor_contents
                  /\ pc' = "error"
    /\ UNCHANGED <<frame_fixed, view_vars>>

NextFrame ==
    \/ FrameScroll
    \/ FrameHide
    \/ FrameRows
    \/ FrameStatus
    \/ FrameMessage
    \/ FrameCursor
    \/ FrameFlush

SpecFrame == InitFrame /\ [][NextFrame]_vars

\* ------------------------------------------------------------------ claims
n_rows == number_of_rows(row_contents)

\* the tab expansion of a text, by display column: a tab fills up to the next
\* multiple of 8
RECURSIVE TabExpandInto(_, _)
TabExpandInto(content, out) ==
    IF content = <<>> THEN out
    ELSE TabExpandInto(Tail(content),
            IF Head(content) = Tab THEN out \o Spaces(8 - (Len(out) % 8))
            ELSE Append(out, Head(content)))

TabExpand(content) == TabExpandInto(content, <<>>)

\* C1: in every state, after load and after any key, each line's rendered form
\* is the tab expansion of its content.
C1_RenderedIsTabExpansion ==
    \A i \in 1..n_rows : row_contents[i].render = TabExpand(row_contents[i].row_content)

\* Enter has split a row in front of a tab
C1_Witness ==
    /\ last_key = "Enter"
    /\ cursor_y >= 1 /\ cursor_y < n_rows
    /\ get_row(row_contents, cursor_y - 1) = <<"a">>
    /\ get_row(row_contents, cursor_y) = <<Tab>>
    /\ Len(get_render(row_contents, cursor_y)) = 8

\* C2: once scroll has run for a frame, the cursor's row and its display column
\* lie inside the window, and render_x is the display column of cursor_x.
C2_CursorInWindow ==
    pc \in {"key", "prompt_key"} =>
        /\ row_offset <= cursor_y
        /\ cursor_y < row_offset + screen_rows
        /\ column_offset <= render_x
        /\ render_x < column_offset + screen_columns
        /\ render_x = IF cursor_y < n_rows
                      THEN Len(TabExpand(StrPrefix(get_row(row_contents, cursor_y), cursor_x)))
                      ELSE 0

\* a frame scrolled both ways
C2_Witness == pc = "key" /\ row_offset > 0 /\ column_offset > 0

\* C3: the cursor stays in the buffer: its row is at most the number of rows, its
\* column at most the length of its row, and 0 on the virtual row past the end.
C3_CursorInBuffer ==
    /\ 0 <= cursor_y /\ cursor_y <= n_rows
    /\ 0 <= cursor_x
    /\ cursor_x <= IF cursor_y < n_rows THEN StrLen(get_row(row_contents, cursor_y)) ELSE 0

\* Down has taken the cursor off a last row with text onto the virtual row
C3_Witness ==
    /\ last_key = "Down"
    /\ n_rows > 0
    /\ cursor_y = n_rows
    /\ cursor_x = 0
    /\ StrLen(get_row(row_contents, n_rows - 1)) > 0

\* C4: a buffer saved and loaded again has the line contents it had.
C4_RoundTrip ==
    (pc = "loaded" /\ written.saved /\ written.ok) =>
        Contents(reloaded) = Contents(row_contents)

\* the bytes of the row contents with a newline between two rows
RECURSIVE JoinedBytes(_)
JoinedBytes(contents) ==
    IF contents = <<>> THEN <<>>
    ELSE IF Len(contents) = 1 THEN Encode(contents[1])
    ELSE JoinedBytes(SubSeq(contents, 1, Len(contents) - 1))
            \o <<Newline>> \o Encode(contents[Len(contents)])

\* C5: after a successful save the file is the row contents joined with newlines,
\* whatever it was before, and the count returned is its length in bytes; so is it
\* after a second save.
C5_SaveWritesJoinedRows ==
    (written.saved /\ written.ok) =>
        /\ written.disk = File(JoinedBytes(Contents(row_contents)))
        /\ written.len = Len(JoinedBytes(Contents(row_contents)))

\* a save has made a longer file shorter
C5_Witness ==
    /\ written.saved /\ written.ok
    /\ Len(written.disk.bytes) > 0
    /\ Len(written.before.bytes) > Len(written.disk.bytes)

\* C6: a key whose save fails on the file leaves the session running for the
\* next frame, with the buffer it had and a message other than the saved one.
C6_SaveFailureKeepsSession ==
    [][(~written.saved /\ written'.saved /\ ~written'.ok) =>
        /\ pc' = "render"
        /\ row_contents' = row_contents
        /\ status_message'.kind # "saved"]_vars

\* the buffer, the cursor and the file name stay, and nothing is written
C7_Untouched ==
    /\ row_contents' = row_contents
    /\ cursor_x' = cursor_x
    /\ cursor_y' = cursor_y
    /\ filename' = None
    /\ written' = NoWrite

\* C7: from Ctrl+S without a file name through the prompt to Esc, no step changes
\* the buffer, the cursor or the file name or writes a file, unless the terminal
\* fails, and Esc sets the aborted message and returns to normal editing.
C7_EscAbortsSave ==
    [][/\ (pc = "key" /\ pc' = "prompt_render") => C7_Untouched
       /\ (/\ pc \in {"prompt_render", "prompt_key"}
           /\ pc' # "error"
           /\ ~(last_key' = "PromptEnter" /\ pc = "prompt_key" /\ input # <<>>))
          => C7_Untouched
       /\ (pc = "prompt_key" /\ last_key' = "PromptEsc")
          => (status_message' = AbortedMsg /\ pc' = "render")]_vars

\* Esc has cancelled the prompt over a buffer with text
C7_Witness ==
    /\ last_key = "PromptEsc"
    /\ pc = "render"
    /\ status_message = AbortedMsg
    /\ filename = None
    /\ n_rows > 0

\* C8: Enter on an existing row splits it at the cursor into rows y and y + 1,
\* keeps the other rows in order and puts the cursor at (y + 1, 0).
C8_EnterSplitsRow ==
    [][(pc = "key" /\ last_key' = "Enter" /\ cursor_y < n_rows) =>
        LET c == Contents(row_contents)
            d == Contents(row_contents')
            y == cursor_y
        IN  /\ pc' = "render"
            /\ Len(d) = Len(c) + 1
            /\ \A i \in 1..y : d[i] = c[i]
            /\ d[y + 1] \o d[y + 2] = c[y + 1]
            /\ StrLen(d[y + 1]) = cursor_x
            /\ \A i \in (y + 2)..Len(c) : d[i + 1] = c[i]
            /\ cursor_y' = y + 1
            /\ cursor_x' = 0]_vars

\* ["a", tab] with the cursor at (0, 1) has become ["a", "", tab], cursor (1, 0)
C8_Witness ==
    /\ last_key = "Enter"
    /\ Contents(row_contents) = << <<"a">>, <<>>, <<Tab>> >>
    /\ cursor_y = 1
    /\ cursor_x = 0

\* C9: Backspace on an existing row removes the character before the cursor, or
\* joins the row to the one above, or at (0, 0) does nothing.
C9_Backspace ==
    [][(pc = "key" /\ last_key' = "Backspace" /\ cursor_y < n_rows) =>
        LET c == Contents(row_contents)
            d == Contents(row_contents')
            y == cursor_y
            x == cursor_x
        IN  IF x > 0
            THEN /\ pc' = "render"
                 /\ cursor_y' = y /\ cursor_x' = x - 1
                 /\ Len(d) = Len(c)
                 /\ \A i \in 1..Len(c) : i # y + 1 => d[i] = c[i]
                 /\ \E ch \in Chars :
                       /\ IsCharBoundary(d[y + 1], x - 1)
                       /\ StrInsert(d[y + 1], x - 1, ch) = c[y + 1]
            ELSE IF y > 0
            THEN /\ pc' = "render"
                 /\ cursor_y' = y - 1 /\ cursor_x' = StrLen(c[y])
                 /\ Len(d) = Len(c) - 1
                 /\ \A i \in 1..(y - 1) : d[i] = c[i]
                 /\ d[y] = c[y] \o c[y + 1]
                 /\ \A i \in (y + 2)..Len(c) : d[i - 1] = c[i]
            ELSE /\ pc' = "render"
                 /\ row_contents' = row_contents
                 /\ cursor_y' = y /\ cursor_x' = x]_vars

\* Right is pressed at the end of the last row
C10_AtEndOfLastRow ==
    /\ pc = "key" /\ last_key' = "Right"
    /\ n_rows > 0
    /\ cursor_y = n_rows - 1
    /\ cursor_x = StrLen(get_row(row_contents, cursor_y))

C11_OnLastRow ==
    /\ pc = "key" /\ last_key' = "Down"
    /\ n_rows > 0
    /\ cursor_y = n_rows - 1

C12_Pressed(direction) == pc = "key" /\ last_key' = direction

\* where Left takes the cursor
C12_Left ==
    IF cursor_x = 0
    THEN IF cursor_y > 0
         THEN /\ cursor_y' = cursor_y - 1
              /\ cursor_x' = StrLen(get_row(row_contents, cursor_y - 1))
         ELSE cursor_y' = cursor_y /\ cursor_x' = cursor_x
    ELSE cursor_y' = cursor_y /\ cursor_x' = cursor_x - 1

C13_DeleteForward ==
    [][(pc = "key" /\ last_key' = "Delete") =>
        LET c == Contents(row_contents)
            d == Contents(row_contents')
            y == cursor_y
            x == cursor_x
        IN  /\ pc' = "render"
            /\ cursor_y' = y /\ cursor_x' = x
            /\ IF y < n_rows /\ x < StrLen(c[y + 1])
               THEN /\ Len(d) = Len(c)
                    /\ \A i \in 1..Len(c) : i # y + 1 => d[i] = c[i]
                    /\ \E ch \in Chars :
                          /\ IsCharBoundary(d[y + 1], x)
                          /\ StrInsert(d[y + 1], x, ch) = c[y + 1]
               ELSE IF y + 1 < n_rows
               THEN /\ Len(d) = Len(c) - 1
                    /\ \A i \in 1..y : d[i] = c[i]
                    /\ d[y + 1] = c[y + 1] \o c[y + 2]
                    /\ \A i \in (y + 3)..Len(c) : d[i - 1] = c[i]
               ELSE row_contents' = row_contents]_vars

\* C14: a second call of scroll with nothing changed in between leaves both
\* offsets and render_x as the first call set them.
C14_ScrollIdempotent ==
    [][pc = "scrolled" => (pc' = "rescrolled" /\ UNCHANGED view_vars)]_vars

\* scroll has run twice over a window it had to move both ways
C14_Witness ==
    /\ pc = "rescrolled"
    /\ row_offset > 0 /\ row_offset = cursor_y - screen_rows + 1
    /\ column_offset > 0 /\ column_offset = render_x - screen_columns + 1

\* the least move of a window of `size` at `offset` that takes `at` in
C19_Least(offset, at, size) ==
    IF at < offset THEN at
    ELSE IF at >= offset + size THEN at - size + 1
    ELSE offset

\* C19: the first call of scroll moves each offset by the least amount: not at
\* all with the cursor inside the window, to the cursor when it is above or left
\* of it, to the cursor less the window's size plus one when it is below or right.
C19_ScrollMovesLeast ==
    [][(pc = "unscrolled" /\ pc' = "scrolled") =>
        /\ row_offset' = C19_Least(row_offset, cursor_y, screen_rows)
        /\ column_offset' = C19_Least(column_offset, render_x', screen_columns)]_vars

\* scroll has moved a window of two rows down to the cursor and left to its column
C19_Witness ==
    /\ pc = "scrolled"
    /\ screen_rows = 2
    /\ row_offset > 0 /\ row_offset = cursor_y - 1
    /\ column_offset > 0 /\ column_offset = render_x

\* C15: once main is left, by Ctrl+Q, by an error or by a panic, Reset::drop
\* runs, and unless one of its two calls fails raw mode is then disabled and
\* the screen cleared.
C15_TerminalReleased ==
    (pc \in {"quit", "error", "panicked"}) ~>
        (/\ pc = "exited"
         /\ \/ terminal.drop \in {"disable_failed", "clear_failed"}
            \/ (~terminal.raw_mode /\ terminal.cleared))

\* the terminal is released after a save that failed
C15_Witness ==
    /\ pc = "exited"
    /\ written.saved /\ ~written.ok
    /\ ~terminal.raw_mode /\ terminal.cleared

\* the key events the claim names as outside the dispatch table
C16_Unmapped ==
    {Ev("Char", "x", "CONTROL"), Ev("Char", "a", "ALT"), Ev("Enter", "", "SHIFT"),
     Ev("Backspace", "", "CONTROL"), Ev("Esc", "", "NONE"), Ev("F", "", "NONE"),
     Ev("Left", "", "CONTROL"), Ev("Right", "", "CONTROL")}

\* C16: the key events the claim names are taken by no arm but the last, and a
\* key taken by that arm leaves the buffer, the cursor, the file name and the
\* message, and the session goes on to its next frame.
C16_UnmappedKeyIgnored ==
    [][/\ \A ev \in C16_Unmapped : ev \in KeyEvents /\ button_arm(ev) = "Other"
       /\ (pc = "key" /\ last_key' = "Other") =>
            /\ UNCHANGED <<row_contents, cursor_vars, filename, status_message>>
            /\ pc' = "render"]_vars

\* an unmapped key was pressed over a saved buffer with the cursor inside it
C16_Witness ==
    /\ last_key = "Other"
    /\ pc = "render"
    /\ status_message.kind = "saved"
    /\ cursor_x > 0

\* C17: in the prompt a character is appended to the input and Backspace or
\* Delete pops its last one, other keys and frames leave it; Enter on an empty
\* input keeps the prompt open, Enter on any other makes the input the file name
\* as it stands (the save that follows may fail and end the session); Esc ends the
\* prompt with no file name and nothing saved; nothing else sets the file name.
C17_PromptReturnsInput ==
    [][/\ (pc = "prompt_render" /\ pc' = "prompt_key") => input' = input
       /\ pc = "prompt_key" =>
            /\ last_key' = "PromptChar" =>
                  /\ pc' = "prompt_render"
                  /\ \E ch \in PromptChars : input' = Append(input, ch)
            /\ last_key' = "PromptErase" =>
                  /\ pc' = "prompt_render"
                  /\ input' = IF input = <<>> THEN <<>>
                              ELSE SubSeq(input, 1, Len(input) - 1)
            /\ last_key' = "PromptOther" =>
                  (pc' = "prompt_render" /\ input' = input)
            /\ last_key' = "PromptEnter" =>
                  IF input = <<>>
                  THEN pc' = "prompt_render" /\ input' = input /\ filename' = None
                  ELSE /\ pc' \in {"render", "error"}
                       /\ pc' = "render" => filename' = Some(input)
            /\ last_key' = "PromptEsc" =>
                  (pc' = "render" /\ filename' = None /\ ~written'.saved)
       /\ (pc \in {"prompt_render", "prompt_key"} /\ filename'.some) =>
            (last_key' = "PromptEnter" /\ input # <<>>)]_vars

\* Enter has committed the two characters typed, in the order typed
C17_Witness ==
    /\ last_key = "PromptEnter"
    /\ pc = "render"
    /\ filename = Some(<<"a", Wide>>)

\* the steps of a frame in the order of the claim
C18_Order ==
    <<"frame_scroll", "frame_hide", "frame_rows", "frame_status", "frame_message",
      "frame_cursor", "frame_flush", "key">>

\* a frame in the order of the claim: hide and home, three pieces a screen row,
\* the status line, the message line, the cursor put in its place and shown
C18_WholeFrame(f) ==
    LET r == 3 * screen_rows
    IN  /\ Len(f) = r + 10
        /\ f[1] = Tok("Hide", <<>>) /\ f[2] = Tok("MoveTo", <<0, 0>>)
        /\ \A i \in 1..screen_rows :
              /\ f[3 * i].op \in {"text", "line_number"}
              /\ f[3 * i + 1].op = "ClearUntilNewLine"
              /\ f[3 * i + 2].op = "CRLF"
        /\ f[r + 3].op = "Reverse" /\ f[r + 4].op = "status"
        /\ f[r + 5].op = "Reset" /\ f[r + 6].op = "CRLF"
        /\ f[r + 7].op = "ClearUntilNewLine" /\ f[r + 8].op = "message"
        /\ f[r + 9] = Tok("MoveTo", <<render_x - column_offset, cursor_y - row_offset>>)
        /\ f[r + 10] = Tok("Show", <<>>)

\* C18: the steps of a frame follow each other in the order scroll, hide and
\* home, rows, status line, message line, cursor, flush; each adds to the output
\* buffer and none before the flush writes to standard output; a flush that
\* succeeds writes the whole frame, leaves the buffer empty and is followed by
\* the read of a key.
C18_FrameInOrder ==
    [][/\ \E k \in 1..7 :
            /\ pc = C18_Order[k]
            /\ pc' \in {C18_Order[k + 1], "panicked", "error"}
       /\ pc # "frame_flush" =>
            /\ stdout' = stdout
            /\ SubSeq(editor_contents', 1, Len(editor_contents)) = editor_contents
       /\ pc = "frame_scroll" => editor_contents' = <<>>
       /\ (pc = "frame_flush" /\ pc' = "key") =>
            /\ C18_WholeFrame(editor_contents)
            /\ stdout' = editor_contents
            /\ editor_contents' = <<>>]_vars

\* a frame over a window scrolled both ways has been flushed
C18_Witness ==
    /\ pc = "key"
    /\ editor_contents = <<>>
    /\ Len(stdout) = 3 * screen_rows + 10
    /\ row_offset > 0 /\ column_offset > 0

\* C20: a character typed on an existing row goes in at the cursor, between what
\* was before it and what was after, and typed on the virtual row makes a new
\* last row of its own; the cursor moves one column on, the other rows stay.
C20_InsertChar ==
    [][(pc = "key" /\ last_key' = "Char") =>
        LET c == Contents(row_contents)
            d == Contents(row_contents')
            y == cursor_y
            x == cursor_x
        IN  /\ pc' = "render"
            /\ cursor_y' = y /\ cursor_x' = x + 1
            /\ \A i \in 1..Len(c) : i # y + 1 => d[i] = c[i]
            /\ IF y < n_rows
               THEN /\ Len(d) = Len(c)
                    /\ \E ch \in Chars :
                          d[y + 1] = StrPrefix(c[y + 1], x) \o <<ch>> \o StrSuffix(c[y + 1], x)
               ELSE /\ Len(d) = Len(c) + 1
                    /\ x = 0
                    /\ \E ch \in Chars : d[y + 1] = <<ch>>]_vars

\* a tab typed on the virtual row under a row with text has made a row of its own
C20_Witness ==
    /\ last_key = "Char"
    /\ Contents(row_contents) = << <<"a">>, <<Tab>> >>
    /\ cursor_y = 1
    /\ cursor_x = 1
    /\ row_offset = 1

\* ------------------------------------------------------------------ C21
\* Ctrl+Up or Ctrl+Down is pressed
C21_Pressed(val) ==
    pc = "key" /\ last_key' = (IF val = "Up" THEN "CtrlUp" ELSE "CtrlDown")

\* the length of row `at`, the virtual row past the end having none
C21_RowLen(rows, at) ==
    IF at < number_of_rows(rows) THEN StrLen(get_row(rows, at)) ELSE 0

\* the line paging ends on, row_offset being what the last frame's scroll set
C21_Line(val) ==
    IF val = "Up"
    THEN (IF row_offset > screen_rows THEN row_offset - screen_rows ELSE 0)
    ELSE Min(row_offset + 2 * screen_rows - 1, n_rows)

\* C21, as stated: paging ends on the stated line, with the column clamped to
\* the length of that line, and leaves the buffer.
C21_PagingAsStated ==
    [][\A val \in {"Up", "Down"} :
          C21_Pressed(val) =>
             /\ cursor_y' = C21_Line(val)
             /\ cursor_x' = Min(cursor_x, C21_RowLen(row_contents, cursor_y'))
             /\ row_contents' = row_contents]_vars

\* the lines the single-step moves of paging stop on, one after the other
C21_Path(val) ==
    LET y0 == IF val = "Up" THEN row_offset
              ELSE Min(screen_rows + row_offset - 1, n_rows)
    IN  {IF val = "Up" THEN SatSub(y0, j) ELSE Min(y0 + j, n_rows) :
            j \in 1..screen_rows}

\* C21, amended: paging ends on the stated line and leaves the buffer; the
\* column is clamped to the length of every line the single steps stop on, not
\* of the last one only.
C21_Paging ==
    [][\A val \in {"Up", "Down"} :
          C21_Pressed(val) =>
             /\ cursor_y' = C21_Line(val)
             /\ \A at \in C21_Path(val) :
                   cursor_x' <= C21_RowLen(row_contents, at)
             /\ \/ cursor_x' = cursor_x
                \/ \E at \in C21_Path(val) :
                      cursor_x' = C21_RowLen(row_contents, at)
             /\ row_contents' = row_contents]_vars

\* Ctrl+Up from the third row, at its end, has passed the empty second row and
\* ended on the first, which is not empty, in column 0
C21_Witness ==
    /\ last_key = "CtrlUp"
    /\ n_rows = 3
    /\ row_offset = 2
    /\ screen_rows = 2
    /\ StrLen(get_row(row_contents, 0)) > 0
    /\ StrLen(get_row(row_contents, 1)) = 0
    /\ StrLen(get_row(row_contents, 2)) > 0
    /\ cursor_y = 0
    /\ cursor_x = 0

\* ------------------------------------------------------------------ C22
\* a call into EditorRows or Line: `at` the index passed, `size` the number of
\* rows, or the length of the row, at the time of the call
Call(op, at, size) == [op |-> op, at |-> at, size |-> size]

\* the index is in range: Vec::insert and String::insert take at <= len,
\* Vec::remove, String::remove and indexing take at < len, and
\* join_adjacent_rows indexes at - 1 as well
InRange(c) ==
    CASE c.op \in {"insert_row", "Line::insert_char"} -> c.at <= c.size
      [] c.op = "join_adjacent_rows" -> 1 <= c.at /\ c.at < c.size
      [] OTHER -> c.at < c.size

\* the calls of Cursor::move_cursor, up to the first that is out of range
move_cursor_calls(direction, x, y, rows) ==
    LET n == number_of_rows(rows)
        first == CASE direction = "Left" /\ x = 0 /\ y > 0 -> {Call("get_row", y - 1, n)}
                   [] direction \in {"Right", "Char_d"} /\ y < n -> {Call("get_row", y, n)}
                   [] OTHER -> {}
    IN  IF \E c \in first : ~InRange(c) THEN first
        ELSE LET moved == MoveStep(direction, x, y, rows)
             IN  first \union (IF moved.y < n THEN {Call("get_row", moved.y, n)} ELSE {})

\* the calls of the for_each of the paging arm
RECURSIVE MoveTimesCalls(_, _, _, _, _)
MoveTimesCalls(k, direction, x, y, rows) ==
    IF k = 0 THEN {}
    ELSE LET calls == move_cursor_calls(direction, x, y, rows)
         IN  IF \E c \in calls : ~InRange(c) THEN calls
             ELSE LET m == move_cursor(direction, x, y, rows)
                  IN  calls \union MoveTimesCalls(k - 1, direction, m.x, m.y, rows)

\* the calls of the Ctrl+Up / Ctrl+Down arm of button_handler
page_calls(val, x, y, ro, rows, srows) ==
    LET y0 == IF val = "Up" THEN ro
              ELSE Min(srows + ro - 1, number_of_rows(rows))
    IN  MoveTimesCalls(srows, val, x, y0, rows)

\* a mutant of delete_char_calls: no return on the virtual row
delete_char_calls_on_virtual_row(rows, x, y) ==
    LET n == number_of_rows(rows)
        row == Call("get_editor_row_mut", y, n)
    IN  IF y = 0 /\ x = 0 THEN {}
        ELSE IF ~InRange(row) THEN {row}
        ELSE IF x > 0
             THEN {row, Call("Line::delete_char", x - 1, StrLen(get_row(rows, y)))}
             ELSE {row, Call("get_row", y - 1, n), Call("join_adjacent_rows", y, n)}

\* the calls of Output::delete_char
delete_char_calls(rows, x, y) ==
    LET n == number_of_rows(rows)
        row == Call("get_editor_row_mut", y, n)
    IN  IF y = n THEN {}
        ELSE IF y = 0 /\ x = 0 THEN {}
        ELSE IF ~InRange(row) THEN {row}
        ELSE IF x > 0
             THEN {row, Call("Line::delete_char", x - 1, StrLen(get_row(rows, y)))}
             ELSE {row, Call("get_row", y - 1, n), Call("join_adjacent_rows", y, n)}

\* the calls of the Backspace / Delete arm of button_handler
backspace_or_delete_calls(key, rows, x, y) ==
    IF key = "Delete"
    THEN LET calls == move_cursor_calls("Right", x, y, rows)
         IN  IF \E c \in calls : ~InRange(c) THEN calls
             ELSE LET m == move_cursor("Right", x, y, rows)
                  IN  calls \union delete_char_calls(rows, m.x, m.y)
    ELSE delete_char_calls(rows, x, y)

\* the calls of Output::insert_newline
insert_newline_calls(rows, x, y) ==
    LET n == number_of_rows(rows)
    IN  IF x = 0 THEN {Call("insert_row", y, n)}
        ELSE {Call("get_editor_row_mut", y, n), Call("insert_row", y + 1, n)}

\* the calls of Output::insert_char
insert_char_calls(rows, x, y) ==
    LET n == number_of_rows(rows)
        added == IF y = n THEN {Call("insert_row", n, n)} ELSE {}
        n1 == IF y = n THEN n + 1 ELSE n
        row == Call("get_editor_row_mut", y, n1)
    IN  IF ~InRange(row) THEN added \union {row}
        ELSE added \union
             {row, Call("Line::insert_char", x,
                        IF y = n THEN 0 ELSE StrLen(get_row(rows, y)))}

\* the calls of Cursor::scroll and Output::draw_rows in a frame
refresh_screen_calls(rows, y, ro, srows) ==
    LET n == number_of_rows(rows)
    IN  (IF y < n THEN {Call("get_editor_row", y, n)} ELSE {})
        \union {Call("get_render", i + ro, n) :
                   i \in {j \in 0..(srows - 1) : j + ro < n}}

\* the calls the key read next may issue, whichever key it is
C22_KeyCalls ==
    UNION ({move_cursor_calls(direction, cursor_x, cursor_y, row_contents) :
               direction \in {"Char_a", "Char_d", "Up", "Down", "Left", "Right"}}
           \union {page_calls(val, cursor_x, cursor_y, row_offset, row_contents,
                              screen_rows) : val \in {"Up", "Down"}}
           \union {backspace_or_delete_calls(key, row_contents, cursor_x, cursor_y) :
                      key \in {"Backspace", "Delete"}}
           \union {insert_newline_calls(row_contents, cursor_x, cursor_y),
                   insert_char_calls(row_contents, cursor_x, cursor_y)})

\* the calls of the frame drawn next, with the row offset its scroll sets
C22_FrameCalls ==
    LET s == scroll(cursor_x, cursor_y, row_offset, column_offset, row_contents,
                    screen_rows, screen_columns)
    IN  refresh_screen_calls(row_contents, cursor_y, s.row_offset, screen_rows)

\* C22: whatever key comes, every call into the rows that its handler issues,
\* and every row read of the frame that follows, has its index in range:
\* insert_row with at <= number_of_rows, join_adjacent_rows with
\* 1 <= at < number_of_rows, Line::delete_char with col < the row's length,
\* Line::insert_char with col <= the row's length, a row read with an index
\* < number_of_rows.
C22_CallsInRange ==
    /\ pc = "key" => \A c \in C22_KeyCalls : InRange(c)
    /\ pc \in {"render", "prompt_render"} => \A c \in C22_FrameCalls : InRange(c)

\* a character was put at the end of the second of two rows: the cursor was on
\* the virtual row or at the end of the last row, where the indices are largest
C22_Witness ==
    /\ last_key = "Char"
    /\ n_rows = 2
    /\ cursor_y = 1
    /\ cursor_x = StrLen(get_row(row_contents, 1))
    /\ cursor_x > 0

\* ------------------------------------------------------------------ C23
\* C23: on an existing row the cursor column is a character boundary of the
\* row's content, whatever the byte widths of the characters typed, so that
\* slicing up to it, inserting at it and removing before it are all defined.
C23_CursorOnCharBoundary ==
    cursor_y < n_rows => IsCharBoundary(get_row(row_contents, cursor_y), cursor_x)

\* ------------------------------------------------------------------ C24
\* Enter, with the rows and the cursor it found noted for the key that follows
KeyEnterNoted ==
    /\ pc = "key"
    /\ ~before_enter.set
    /\ LET r == insert_newline(row_contents, cursor_x, cursor_y)
       IN  /\ InBounds(r.rows)
           /\ IF r.panic
              THEN Exit("panicked") /\ UNCHANGED before_enter
              ELSE /\ row_contents' = r.rows
                   /\ cursor_x' = r.x
                   /\ cursor_y' = r.y
                   /\ pc' = "render"
                   /\ before_enter' = [rows |-> row_contents, x |-> cursor_x,
                                       y |-> cursor_y, set |-> TRUE]
                   /\ UNCHANGED <<filename, view_vars, status_message, input>>
    /\ last_key' = "Enter"
    /\ UNCHANGED <<screen_rows, screen_columns, reloaded, terminal, frame_vars, written>>

\* Backspace as the key right after a noted Enter
KeyBackspaceAfterEnter ==
    /\ pc = "key"
    /\ before_enter.set
    /\ LET r == backspace_or_delete("Backspace", row_contents, cursor_x, cursor_y)
       IN  /\ InBounds(r.rows)
           /\ IF r.panic
              THEN Exit("panicked")
              ELSE /\ row_contents' = r.rows
                   /\ cursor_x' = r.x
                   /\ cursor_y' = r.y
                   /\ pc' = "render"
                   /\ UNCHANGED <<filename, view_vars, status_message, input>>
    /\ before_enter' = NoBefore
    /\ last_key' = "Backspace"
    /\ UNCHANGED <<screen_rows, screen_columns, reloaded, terminal, frame_vars, written>>

\* the frame between the two keys, and the ends the session may meet there
AfterEnterNoted ==
    /\ before_enter.set
    /\ (Render \/ ReadKeyError \/ ResetDrop)

\* the session, with any Enter noted or not; after a noted one comes Backspace
NextEnterBackspace ==
    \/ ~before_enter.set /\ Next
    \/ KeyEnterNoted
    \/ AfterEnterNoted
    \/ KeyBackspaceAfterEnter

SpecEnterBackspace == Init /\ [][NextEnterBackspace]_vars

\* Backspace is pressed right after Enter
C24_BackspaceAfterEnter ==
    pc = "key" /\ before_enter.set /\ last_key' = "Backspace"

\* Backspace has brought back the rows and the cursor that Enter found
C24_Undone ==
    /\ pc' = "render"
    /\ Contents(row_contents') = Contents(before_enter.rows)
    /\ cursor_y' = before_enter.y
    /\ cursor_x' = before_enter.x

\* C24, as stated: Enter and then Backspace bring back the rows and the cursor,
\* from every state, the virtual row and the empty buffer included.
C24_EnterBackspaceIdentity ==
    [][C24_BackspaceAfterEnter => C24_Undone]_vars

\* C24, amended: Enter and then Backspace bring back the rows and the cursor
\* when the cursor was on an existing row; on the virtual row past the end, and
\* so in the empty buffer, Enter has added an empty row and moved to the new
\* virtual row, and Backspace changes nothing.
C24_EnterBackspaceOnRow ==
    [][C24_BackspaceAfterEnter =>
          IF before_enter.y < number_of_rows(before_enter.rows)
          THEN C24_Undone
          ELSE /\ pc' = "render"
               /\ row_contents' = row_contents
               /\ Contents(row_contents) = Append(Contents(before_enter.rows), <<>>)
               /\ cursor_y' = before_enter.y + 1 /\ cursor_y' = cursor_y
               /\ cursor_x' = 0 /\ cursor_x = 0]_vars

\* Enter was pressed in the middle of the one row, the frame is drawn and the
\* next key, Backspace, is read with the cursor at the start of the second row
C24_Witness ==
    /\ pc = "key"
    /\ before_enter.set
    /\ before_enter.y = 0 /\ before_enter.x = 1
    /\ Len(before_enter.rows) = 1
    /\ StrLen(get_row(before_enter.rows, 0)) = 2
    /\ n_rows = 2
    /\ cursor_y = 1
    /\ cursor_x = 0

\* ------------------------------------------------------------------ C25
\* the match of prompt!: the arm a key event is taken by
prompt_arm(ev) ==
    CASE ev.code = "Enter" /\ ev.modifiers = "NONE" -> "Enter"
      [] ev.code = "Esc" -> "Esc"
      [] ev.code \in {"Backspace", "Delete"} /\ ev.modifiers = "NONE" -> "Erase"
      [] ev.code \in {"Char", "Tab"} /\ ev.modifiers \in {"NONE", "SHIFT"} -> "Char"
      [] OTHER -> "Other"

\* the key event that ends the session when the editor reads it
CtrlQ == Ev("Char", "q", "CONTROL")

\* a mutant of the prompt's handling of Ctrl+Q: the key is taken as by
\* button_handler and ends the session
PromptCtrlQQuits ==
    /\ pc = "prompt_key"
    /\ button_arm(CtrlQ) = "CtrlQ"
    /\ Exit("quit")
    /\ last_key' = "PromptCtrlQ"
    /\ UNCHANGED <<size_vars, written>>

\* prompt!, Ctrl+Q: the `_ => {}` arm, and the loop goes on
PromptCtrlQ ==
    /\ pc = "prompt_key"
    /\ prompt_arm(CtrlQ) = "Other"
    /\ last_key' = "PromptCtrlQ"
    /\ pc' = "prompt_render"
    /\ UNCHANGED <<row_contents, filename, cursor_vars, view_vars, size_vars,
                   status_message, input, written>>

\* the session, with Ctrl+Q told from the other keys the prompt ignores
NextPrompt == Next \/ PromptCtrlQ

SpecPrompt == Init /\ [][NextPrompt]_vars

\* the prompt is active
C25_InPrompt == pc \in {"prompt_render", "prompt_key"}

\* the key read leaves the prompt: Esc, or Enter with some input
C25_Leaves ==
    /\ pc = "prompt_key"
    /\ \/ last_key' = "PromptEsc"
       \/ last_key' = "PromptEnter" /\ input # <<>>

\* C25: while the prompt is active and until Esc or Enter with some input
\* leaves it, no step changes the rows, the cursor or the file name, nothing is
\* saved and the prompt stays active, unless the session ends on a failure of
\* the terminal or a panic of the frame; Ctrl+Q is
\* ignored like any other key outside the prompt's match and changes neither
\* the input nor the message; only the input and the message ever change.
C25_PromptKeepsEditor ==
    [][/\ (C25_InPrompt /\ ~C25_Leaves /\ pc' \notin {"error", "panicked"}) =>
            /\ C25_InPrompt'
            /\ row_contents' = row_contents
            /\ cursor_x' = cursor_x /\ cursor_y' = cursor_y
            /\ filename' = filename
            /\ written' = written
            /\ view_vars' = view_vars
       /\ (pc = "prompt_key" /\ last_key' = "PromptCtrlQ") =>
            /\ pc' = "prompt_render"
            /\ input' = input
            /\ status_message' = status_message]_vars

\* Ctrl+Q was pressed in the prompt after a name was typed, with rows in the
\* buffer and the cursor off the origin: the prompt goes on
C25_Witness ==
    /\ pc = "prompt_render"
    /\ last_key = "PromptCtrlQ"
    /\ input # <<>>
    /\ n_rows > 0
    /\ cursor_y > 0

====
